---- MODULE Spec2Model ----
(***************************************************************************)
(* A model of PyFVCOM/buoy.py: the line tokenizer _split_lines, the header *)
(* locator _read_header, the Buoy file loader (its constructor, load(),    *)
(* _ReadTime, _ReadData, _ReadPosition) and the two SQLite accessors       *)
(* get_buoy_metadata and get_buoy_data.                                    *)
(*                                                                         *)
(* A Python str is a sequence of atoms.  An atom is one character ("," or  *)
(* "2") or an indivisible run of characters holding no delimiter, no       *)
(* whitespace and no digit (a column name such as "Year").  A token list   *)
(* is a sequence of such sequences.  None is the atom "None", which occurs *)
(* in no text; an optional object is <<>> (None) or <<object>>.            *)
(***************************************************************************)
EXTENDS Integers, Sequences, FiniteSets, TLC

VARIABLES
    \* _split_lines called on its own
    line, remove_empty, remove_trailing, y, splitPc,
    \* a Buoy object and the file it is built from
    suffix, fileLines, pc, exc, _lines, header, header_length, header_indices,
    time, position, data,
    \* one call of get_buoy_metadata or get_buoy_data
    use_sqlite, dbOpens, tableExists, rows, dbFn, dbPc, con, dbExc, dbRet

splitVars == <<line, remove_empty, remove_trailing, y, splitPc>>
buoyVars == <<suffix, fileLines, pc, exc, _lines, header, header_length,
              header_indices, time, position, data>>
dbVars == <<use_sqlite, dbOpens, tableExists, rows, dbFn, dbPc, con, dbExc, dbRet>>
vars == <<splitVars, buoyVars, dbVars>>

None == "None"
NoObject == <<>>
Obj(o) == <<o>>

(***************************************************************************)
(* Bounds of the model.                                                    *)
(***************************************************************************)
\* longest line handed to _split_lines on its own
MaxLen == 4
\* most lines in a buoy file
MaxLines == 3
\* most rows in the database table
MaxRows == 2

(***************************************************************************)
(* str methods.                                                            *)
(***************************************************************************)
\* the characters str.strip() and str.split(None) treat as whitespace
Whitespace == {" ", "\t", "\n", "\r"}

\* c in s
Contains(s, c) == \E i \in 1..Len(s) : s[i] = c

\* s.count(c)
Count(s, c) == Cardinality({i \in 1..Len(s) : s[i] = c})

\* s.lstrip(chars)
LStrip(s, chars) ==
    IF \A i \in 1..Len(s) : s[i] \in chars THEN <<>>
    ELSE LET first == CHOOSE i \in 1..Len(s) :
                          s[i] \notin chars /\ \A j \in 1..(i - 1) : s[j] \in chars
         IN  SubSeq(s, first, Len(s))

\* s.rstrip(chars)
RStrip(s, chars) ==
    IF \A i \in 1..Len(s) : s[i] \in chars THEN <<>>
    ELSE LET last == CHOOSE i \in 1..Len(s) :
                         s[i] \notin chars /\ \A j \in (i + 1)..Len(s) : s[j] \in chars
         IN  SubSeq(s, 1, last)

\* s.strip(chars)
Strip(s, chars) == RStrip(LStrip(s, chars), chars)

\* s.split(sep) for a one-character sep: count(sep) + 1 fields, empty ones kept
RECURSIVE SplitOn(_, _)
SplitOn(s, sep) ==
    IF Contains(s, sep)
    THEN LET i == CHOOSE i \in 1..Len(s) :
                      s[i] = sep /\ \A j \in 1..(i - 1) : s[j] # sep
         IN  <<SubSeq(s, 1, i - 1)>> \o SplitOn(SubSeq(s, i + 1, Len(s)), sep)
    ELSE <<s>>

\* s.split(None): the maximal runs of non-whitespace, none of them empty
RECURSIVE SplitWhitespace(_)
SplitWhitespace(s) ==
    LET t == LStrip(s, Whitespace)
    IN  IF t = <<>> THEN <<>>
        ELSE LET n == IF \E i \in 1..Len(t) : t[i] \in Whitespace
                      THEN CHOOSE i \in 1..Len(t) :
                               t[i] \in Whitespace
                               /\ \A j \in 1..(i - 1) : t[j] \notin Whitespace
                      ELSE Len(t) + 1
             IN  <<SubSeq(t, 1, n - 1)>> \o SplitWhitespace(SubSeq(t, n, Len(t)))

\* s.split(sep), sep a character or None
Split(s, sep) == IF sep = None THEN SplitWhitespace(s) ELSE SplitOn(s, sep)

\* sep.join(parts)
RECURSIVE Join(_, _)
Join(parts, sep) ==
    IF parts = <<>> THEN <<>>
    ELSE IF Len(parts) = 1 THEN parts[1]
    ELSE parts[1] \o <<sep>> \o Join(Tail(parts), sep)

\* [f(i) for i in s if keep(i)] with f = str.strip and keep = bool
RECURSIVE StripNonEmpty(_)
StripNonEmpty(fields) ==
    IF fields = <<>> THEN <<>>
    ELSE (IF Head(fields) # <<>> THEN <<Strip(Head(fields), Whitespace)>> ELSE <<>>)
         \o StripNonEmpty(Tail(fields))

(***************************************************************************)
(* A call's outcome: the value it returns, or the exception it raises.     *)
(***************************************************************************)
Return(v) == [exc |-> None, val |-> v]
Raise(e) == [exc |-> e, val |-> <<>>]

(***************************************************************************)
(* _split_lines                                                            *)
(***************************************************************************)
delimiters == <<";", ",", "\t", " ">>

\* a variant of SniffDelimiter: the candidates tried in the reverse order
SniffDelimiterReversed(s) ==
    IF \E k \in 1..Len(delimiters) : Contains(s, delimiters[k])
    THEN delimiters[CHOOSE k \in 1..Len(delimiters) :
                        Contains(s, delimiters[k])
                        /\ \A m \in (k + 1)..Len(delimiters) : ~Contains(s, delimiters[m])]
    ELSE None

\* for d in delimiters: if d in line: delimiter = d; break
SniffDelimiter(s) ==
    IF \E k \in 1..Len(delimiters) : Contains(s, delimiters[k])
    THEN delimiters[CHOOSE k \in 1..Len(delimiters) :
                        Contains(s, delimiters[k])
                        /\ \A m \in 1..(k - 1) : ~Contains(s, delimiters[m])]
    ELSE None

\* y = line.split(delimiter), and with remove_empty
\* y = [i.strip() for i in line.split(delimiter) if i]
SplitFields(l, delimiter, rm_empty) ==
    IF rm_empty THEN Return(StripNonEmpty(Split(l, delimiter)))
    ELSE Return(Split(l, delimiter))

\* the body of _split_lines after line = line.strip('\n')
SplitStripped(l, delimiter, rm_empty, rm_trailing) ==
    IF rm_trailing /\ delimiter = None
    THEN \* None.join: 'NoneType' object has no attribute 'join'
         Raise("AttributeError")
    ELSE SplitFields(IF rm_trailing
                     THEN Join(Split(RStrip(l, {delimiter}), delimiter), delimiter)
                     ELSE l,
                     delimiter, rm_empty)

_split_lines(l, rm_empty, rm_trailing) ==
    SplitStripped(Strip(l, {"\n"}), SniffDelimiter(l), rm_empty, rm_trailing)

(***************************************************************************)
(* datetime.strptime: the format's directives become a regular expression  *)
(* that re.match tries at the start of the string, alternatives in order   *)
(* and with backtracking; text left after the match is an error.           *)
(***************************************************************************)
Digits == <<"0", "1", "2", "3", "4", "5", "6", "7", "8", "9">>
IsDigit(c) == \E d \in 1..10 : Digits[d] = c
DigitValue(c) == (CHOOSE d \in 1..10 : Digits[d] = c) - 1

RECURSIVE Number(_)
Number(s) == IF s = <<>> THEN 0
             ELSE 10 * Number(SubSeq(s, 1, Len(s) - 1)) + DigitValue(s[Len(s)])

\* each directive: the lengths of its alternatives in the order the regular
\* expression tries them, and the values those alternatives admit
Directive ==
    [Y |-> [lens |-> <<4>>, lo |-> 0, hi |-> 9999],
     j |-> [lens |-> <<3, 2, 1>>, lo |-> 1, hi |-> 366],
     m |-> [lens |-> <<2, 1>>, lo |-> 1, hi |-> 12],
     d |-> [lens |-> <<2, 1>>, lo |-> 1, hi |-> 31],
     H |-> [lens |-> <<2, 1>>, lo |-> 0, hi |-> 23],
     M |-> [lens |-> <<2, 1>>, lo |-> 0, hi |-> 59],
     S |-> [lens |-> <<2, 1>>, lo |-> 0, hi |-> 61]]

\* '%Y%j %H.%M' and '%Y-%m-%d %H:%M:%S': a directive, "\\s+" for a blank of
\* the format, or a literal character
WCOFormat == <<"Y", "j", "\\s+", "H", ".", "M">>
CEFASFormat == <<"Y", "-", "m", "-", "d", "\\s+", "H", ":", "M", ":", "S">>

NoFields == [Y |-> 1900, j |-> 0, m |-> 1, d |-> 1, H |-> 0, M |-> 0, S |-> 0]

\* the length of the run of whitespace of s that starts at p
RECURSIVE BlankRun(_, _)
BlankRun(s, p) ==
    IF p <= Len(s) /\ s[p] \in Whitespace THEN 1 + BlankRun(s, p + 1) ELSE 0

\* n characters of s from p are digits and make a number of lo..hi
IsField(s, p, n, lo, hi) ==
    /\ p + n - 1 <= Len(s)
    /\ \A i \in p..(p + n - 1) : IsDigit(s[i])
    /\ Number(SubSeq(s, p, p + n - 1)) \in lo..hi

\* the match of fmt[k..] against s from position p, the alternatives of
\* fmt[k] tried from the alt-th on: <<>> (none) or <<[found, end]>>, end
\* being the position after the match
RECURSIVE Match(_, _, _, _, _, _)
Match(s, p, fmt, k, alt, found) ==
    IF k > Len(fmt) THEN <<[found |-> found, end |-> p]>>
    ELSE IF fmt[k] = "\\s+"
    THEN \* the longest run first, then giving characters back
         IF alt > BlankRun(s, p) THEN <<>>
         ELSE IF Match(s, p + BlankRun(s, p) - alt + 1, fmt, k + 1, 1, found) # <<>>
         THEN Match(s, p + BlankRun(s, p) - alt + 1, fmt, k + 1, 1, found)
         ELSE Match(s, p, fmt, k, alt + 1, found)
    ELSE IF fmt[k] \in DOMAIN Directive
    THEN IF alt > Len(Directive[fmt[k]].lens) THEN <<>>
         ELSE IF /\ IsField(s, p, Directive[fmt[k]].lens[alt],
                            Directive[fmt[k]].lo, Directive[fmt[k]].hi)
                 /\ Match(s, p + Directive[fmt[k]].lens[alt], fmt, k + 1, 1,
                          found) # <<>>
         THEN Match(s, p + Directive[fmt[k]].lens[alt], fmt, k + 1, 1,
                    [found EXCEPT ![fmt[k]] =
                         Number(SubSeq(s, p, p + Directive[fmt[k]].lens[alt] - 1))])
         ELSE Match(s, p, fmt, k, alt + 1, found)
    ELSE IF p <= Len(s) /\ s[p] = fmt[k]
    THEN Match(s, p + 1, fmt, k + 1, 1, found)
    ELSE <<>>

IsLeap(year) == (year % 4 = 0 /\ year % 100 # 0) \/ year % 400 = 0
DaysInYear(year) == IF IsLeap(year) THEN 366 ELSE 365

\* a variant of DaysInMonth: February has 28 days in every year
DaysInMonthNoLeap(year, month) ==
    IF month = 2 THEN 28
    ELSE IF month \in {4, 6, 9, 11} THEN 30 ELSE 31

DaysInMonth(year, month) ==
    IF month = 2 THEN (IF IsLeap(year) THEN 29 ELSE 28)
    ELSE IF month \in {4, 6, 9, 11} THEN 30 ELSE 31

\* date.fromordinal((julian - 1) + date(year, 1, 1).toordinal()): the day
\* number julian of the year, running on into the next year past its last day
RECURSIVE DateOfJulian(_, _, _)
DateOfJulian(year, month, julian) ==
    IF month = 1 /\ julian > DaysInYear(year)
    THEN DateOfJulian(year + 1, 1, julian - DaysInYear(year))
    ELSE IF julian > DaysInMonth(year, month) /\ month < 12
    THEN DateOfJulian(year, month + 1, julian - DaysInMonth(year, month))
    ELSE [year |-> year, month |-> month, day |-> julian]

\* datetime(year, month, day, hour, minute, second) of the fields found
StrptimeDate(f, date) ==
    IF \/ f.Y < 1 \/ date.year > 9999
       \/ date.day > DaysInMonth(date.year, date.month)
       \/ f.S > 59
    THEN Raise("ValueError")  \* out of range
    ELSE Return([year |-> date.year, month |-> date.month, day |-> date.day,
                 hour |-> f.H, minute |-> f.M, second |-> f.S])

StrptimeMatch(s, fmt, got) ==
    IF got = <<>> THEN Raise("ValueError")       \* does not match format
    ELSE IF got[1].end # Len(s) + 1
    THEN Raise("ValueError")                      \* unconverted data remains
    ELSE StrptimeDate(got[1].found,
                      IF \E k \in 1..Len(fmt) : fmt[k] = "j"
                      THEN DateOfJulian(got[1].found.Y, 1, got[1].found.j)
                      ELSE [year |-> got[1].found.Y, month |-> got[1].found.m,
                            day |-> got[1].found.d])

\* datetime.strptime(s, fmt)
strptime(s, fmt) == StrptimeMatch(s, fmt, Match(s, 1, fmt, 1, 1, NoFields))

(***************************************************************************)
(* float(): a decimal literal is the pair of its digits read as an integer *)
(* and its number of decimals, trailing zeros dropped (15.20 is 15.2);     *)
(* np.nan stays not-a-number; other text raises ValueError.  (The          *)
(* exponent, underscore, inf and nan spellings float() also reads hold     *)
(* characters that no text of the model has.)                              *)
(***************************************************************************)
\* the float object np.nan, which is no text
NaN == <<"np.nan">>

RECURSIVE Normalise(_)
Normalise(f) ==
    IF f.decimals > 0 /\ f.digits % 10 = 0
    THEN Normalise([f EXCEPT !.digits = f.digits \div 10, !.decimals = f.decimals - 1])
    ELSE f

FloatOfDigits(negative, digits, decimals) ==
    IF digits # <<>> /\ \A i \in 1..Len(digits) : IsDigit(digits[i])
    THEN Return(Normalise([nan |-> FALSE,
                           sign |-> IF negative /\ Number(digits) # 0 THEN -1 ELSE 1,
                           digits |-> Number(digits),
                           decimals |-> decimals]))
    ELSE Raise("ValueError")

FloatOfParts(negative, parts) ==
    IF Len(parts) = 1 THEN FloatOfDigits(negative, parts[1], 0)
    ELSE IF Len(parts) = 2
    THEN FloatOfDigits(negative, parts[1] \o parts[2], Len(parts[2]))
    ELSE Raise("ValueError")

FloatOfText(t) ==
    FloatOfParts(t # <<>> /\ t[1] = "-",
                 SplitOn(IF t # <<>> /\ t[1] \in {"-", "+"} THEN Tail(t) ELSE t, "."))

float(token) ==
    IF token = NaN
    THEN Return([nan |-> TRUE, sign |-> 1, digits |-> 0, decimals |-> 0])
    ELSE FloatOfText(Strip(token, Whitespace))

(***************************************************************************)
(* _read_header                                                            *)
(***************************************************************************)
_time_header == <<"Year", "Serial", "Jd", "Time", "Time_GMT", "Date_YYMMDD",
                  "Time_HHMMSS", "Date/Time_GMT">>

Range(s) == {s[i] : i \in 1..Len(s)}

\* any(time in line for time in header_names), a name being a one-atom token
HasTimeName(tokens, header_names) ==
    \E n \in 1..Len(header_names) : <<header_names[n]>> \in Range(tokens)

\* a variant of HeaderScan: the loop has no break, so a later line that holds
\* a time name moves header_length past the lines in between
RECURSIVE HeaderScanNoBreak(_, _, _, _)
HeaderScanNoBreak(lines, header_names, count, length) ==
    IF count >= Len(lines) THEN length
    ELSE IF HasTimeName(lines[count + 1], header_names)
    THEN HeaderScanNoBreak(lines, header_names, count + 1, count)
    ELSE HeaderScanNoBreak(lines, header_names, count + 1, length)

\* for count, line in enumerate(lines): from index count on, header_length
\* being length so far
RECURSIVE HeaderScan(_, _, _, _)
HeaderScan(lines, header_names, count, length) ==
    IF count >= Len(lines) THEN length
    ELSE IF HasTimeName(lines[count + 1], header_names)
    THEN HeaderScan(lines, header_names, count + 1, count)
    ELSE length  \* break

\* header.index(name): the name's first place, counted from 0
Index(row, name) ==
    (CHOOSE i \in 1..Len(row) : row[i] = name /\ \A k \in 1..(i - 1) : row[k] # name) - 1

\* header = lines[header_length - 1] and the indices of its names
HeaderAt(lines, length) ==
    IF length > Len(lines)
    THEN Raise("IndexError")  \* lines[0] of an empty list
    ELSE Return([header |-> lines[length],
                 header_length |-> length,
                 header_indices |-> [name \in Range(lines[length]) |->
                                         Index(lines[length], name)]])

_read_header(lines, header_names) ==
    HeaderAt(lines, HeaderScan(lines, header_names, 0, 0) + 1)

(***************************************************************************)
(* Buoy._slurp_file                                                        *)
(***************************************************************************)
\* the exception of the first of results that raised
FirstRaise(results) ==
    results[CHOOSE i \in 1..Len(results) :
                results[i].exc # None /\ \A k \in 1..(i - 1) : results[k].exc = None].exc

Raised(results) == \E i \in 1..Len(results) : results[i].exc # None

\* new_lines.append([np.nan if i == '' else i for i in line])
EmptyToNaN(tokens) ==
    [i \in 1..Len(tokens) |-> IF tokens[i] = <<>> THEN NaN ELSE tokens[i]]

SlurpSplit(empty, split) ==
    IF Raised(split) THEN Raise(FirstRaise(split))
    ELSE Return([i \in 1..Len(split) |->
                    IF ~empty THEN EmptyToNaN(split[i].val) ELSE split[i].val])

\* the file's text is the sequence f.readlines() gives
_slurp_file(sfx, text) ==
    SlurpSplit(sfx = ".txt",
               [i \in 1..Len(text) |-> _split_lines(text[i], sfx = ".txt", sfx = ".csv")])

(***************************************************************************)
(* Buoy._ReadTime, Buoy._ReadData, Buoy._ReadPosition                      *)
(***************************************************************************)
\* a variant of ReadDataColumn: no row is dropped, a row too short for the
\* column giving np.nan
ReadDataColumnUnfiltered(lines, length, num_columns, name_index) ==
    [i \in 1..(Len(lines) - length) |->
        IF Len(lines[length + i]) > name_index
        THEN lines[length + i][name_index + 1] ELSE NaN]

\* _ReadData._read: the values of one column, from the body rows that have
\* as many columns as the header
RECURSIVE ReadDataColumn(_, _, _, _)
ReadDataColumn(lines, length, num_columns, name_index) ==
    IF length >= Len(lines) THEN <<>>
    ELSE (IF Len(lines[length + 1]) = num_columns
          THEN <<lines[length + 1][name_index + 1]>> ELSE <<>>)
         \o ReadDataColumn(lines, length + 1, num_columns, name_index)

\* _ReadTime._read: the same loop, written out again there
RECURSIVE ReadTimeColumn(_, _, _, _)
ReadTimeColumn(lines, length, num_columns, name_index) ==
    IF length >= Len(lines) THEN <<>>
    ELSE (IF Len(lines[length + 1]) = num_columns
          THEN <<lines[length + 1][name_index + 1]>> ELSE <<>>)
         \o ReadTimeColumn(lines, length + 1, num_columns, name_index)

\* if num_lines > 1:
MoreThanOne(num_lines) == num_lines > 1

IsTimeName(name) == \E n \in 1..Len(_time_header) : name = <<_time_header[n]>>
IsDataName(name) == ~IsTimeName(name)

\* '{y}{doy} {hm}'.format(y=year, doy=doy, hm=time)
FormatWCO(year, doy, hm) == year \o doy \o <<" ">> \o hm

\* self.datetime: every timestamp, or the first exception
ReadTimeResult(time_header, attrs, stamps) ==
    IF Raised(stamps) THEN Raise(FirstRaise(stamps))
    ELSE Return([time_header |-> time_header,
                 attrs |-> attrs,
                 datetime |-> [i \in 1..Len(stamps) |-> stamps[i].val]])

\* hasattr(self, name): attrs holds what setattr has set
ReadTimeStamps(time_header, attrs) ==
    ReadTimeResult(time_header, attrs,
        IF /\ <<"Year">> \in DOMAIN attrs
           /\ <<"Serial">> \in DOMAIN attrs
           /\ <<"Time">> \in DOMAIN attrs
        THEN [i \in 1..Len(attrs[<<"Year">>]) |->
                 strptime(FormatWCO(attrs[<<"Year">>][i], attrs[<<"Serial">>][i],
                                    attrs[<<"Time">>][i]), WCOFormat)]
        ELSE IF <<"Time", " ", "(GMT)">> \in DOMAIN attrs
        THEN [i \in 1..Len(attrs[<<"Time", " ", "(GMT)">>]) |->
                 strptime(attrs[<<"Time", " ", "(GMT)">>][i], CEFASFormat)]
        ELSE <<>>)

ReadTimeNames(lines, h, time_header) ==
    ReadTimeStamps(time_header,
        [name \in Range(time_header) |->
            ReadTimeColumn(lines, h.header_length, Len(h.header),
                           h.header_indices[name])])

ReadTimeHeader(lines, h) ==
    ReadTimeNames(lines, h,
        IF MoreThanOne(Len(lines) - h.header_length)
        THEN SelectSeq(h.header, IsTimeName) ELSE <<>>)

_ReadTime(lines) == ReadTimeHeader(lines, _read_header(lines, _time_header).val)

\* np.asarray(data, dtype=float), then setattr(self, name, ...)
DataArray(name, values) ==
    IF Raised(values) THEN Raise("ValueError")
    ELSE IF name = NaN THEN Raise("TypeError")  \* attribute name must be string
    ELSE Return([i \in 1..Len(values) |-> values[i].val])

FloatEach(column) == [i \in 1..Len(column) |-> float(column[i])]

ReadDataResult(names, arrays) ==
    IF Raised(arrays) THEN Raise(FirstRaise(arrays))
    ELSE Return([name \in Range(names) |-> arrays[Index(names, name) + 1].val])

ReadDataNames(lines, h, names) ==
    ReadDataResult(names,
        [k \in 1..Len(names) |->
            DataArray(names[k],
                      FloatEach(ReadDataColumn(lines, h.header_length, Len(h.header),
                                               h.header_indices[names[k]])))])

ReadDataHeader(lines, h) ==
    ReadDataNames(lines, h,
        IF MoreThanOne(Len(lines) - h.header_length)
        THEN SelectSeq(h.header, IsDataName) ELSE <<>>)

_ReadData(lines) == ReadDataHeader(lines, _read_header(lines, _time_header).val)

_ReadPosition(location, site) == [lon |-> 0, lat |-> 0]

(***************************************************************************)
(* Buoy(filename) and Buoy.load()                                          *)
(***************************************************************************)
ConstructHeader(lines, h) ==
    IF h.exc # None
    THEN /\ pc' = "raised" /\ exc' = h.exc
         /\ UNCHANGED <<_lines, header, header_length, header_indices>>
    ELSE /\ pc' = "constructed" /\ exc' = None
         /\ _lines' = lines
         /\ header' = h.val.header
         /\ header_length' = h.val.header_length
         /\ header_indices' = h.val.header_indices

ConstructSlurped(slurped) ==
    IF slurped.exc # None
    THEN /\ pc' = "raised" /\ exc' = slurped.exc
         /\ UNCHANGED <<_lines, header, header_length, header_indices>>
    ELSE ConstructHeader(slurped.val, _read_header(slurped.val, _time_header))

\* Buoy.__init__: _slurp_file, then _read_header
Construct ==
    /\ pc = "new"
    /\ ConstructSlurped(_slurp_file(suffix, fileLines))
    /\ UNCHANGED <<suffix, fileLines, time, position, data, splitVars, dbVars>>

LoadData(t, d) ==
    /\ time' = Obj(t)
    /\ position' = Obj(_ReadPosition(None, "L4"))
    /\ IF d.exc # None
       THEN pc' = "raised" /\ exc' = d.exc /\ UNCHANGED data
       ELSE pc' = "loaded" /\ exc' = None /\ data' = Obj(d.val)

LoadTime(t) ==
    IF t.exc # None
    THEN pc' = "raised" /\ exc' = t.exc /\ UNCHANGED <<time, position, data>>
    ELSE IF t.val.datetime = <<>>  \* not any(self.time.datetime)
    THEN /\ pc' = "loaded" /\ exc' = None /\ time' = Obj(t.val)
         /\ UNCHANGED <<position, data>>
    ELSE LoadData(t.val, _ReadData(_lines))

\* Buoy.load
Load ==
    /\ pc \in {"constructed", "loaded"}
    /\ LoadTime(_ReadTime(_lines))
    /\ UNCHANGED <<suffix, fileLines, _lines, header, header_length, header_indices,
                   splitVars, dbVars>>

(***************************************************************************)
(* The tokenizer on its own: one call of _split_lines on any line over     *)
(* SplitAlphabet of at most MaxLen characters, under any options.          *)
(***************************************************************************)
SplitAlphabet == {";", ",", "\t", " ", "\n", "\r", "a"}

SeqsUpTo(S, n) == UNION {[1..k -> S] : k \in 0..n}

SplitIdle ==
    /\ line = <<>> /\ remove_empty = FALSE /\ remove_trailing = FALSE
    /\ y = <<>> /\ splitPc = "idle"

BuoyIdle ==
    /\ suffix = "" /\ fileLines = <<>> /\ pc = "idle" /\ exc = None
    /\ _lines = <<>> /\ header = <<>> /\ header_length = 0 /\ header_indices = <<>>
    /\ time = NoObject /\ position = NoObject /\ data = NoObject

DbIdle ==
    /\ use_sqlite = TRUE /\ dbOpens = TRUE /\ tableExists = TRUE /\ rows = <<>>
    /\ dbFn = "none" /\ dbPc = "idle" /\ con = "unbound" /\ dbExc = None
    /\ dbRet = <<>>

InitSplit ==
    /\ line \in SeqsUpTo(SplitAlphabet, MaxLen)
    /\ remove_empty \in BOOLEAN
    /\ remove_trailing \in BOOLEAN
    /\ y = <<>>
    /\ splitPc = "call"
    /\ BuoyIdle /\ DbIdle

SplitReturns ==
    /\ splitPc = "call"
    /\ _split_lines(line, remove_empty, remove_trailing).exc = None
    /\ y' = _split_lines(line, remove_empty, remove_trailing).val
    /\ splitPc' = "returned"
    /\ UNCHANGED <<line, remove_empty, remove_trailing, buoyVars, dbVars>>

SplitRaises ==
    /\ splitPc = "call"
    /\ _split_lines(line, remove_empty, remove_trailing).exc # None
    /\ splitPc' = "raised"
    /\ UNCHANGED <<line, remove_empty, remove_trailing, y, buoyVars, dbVars>>

NextSplit == SplitReturns \/ SplitRaises

SpecSplit == InitSplit /\ [][NextSplit]_vars

(***************************************************************************)
(* The loader: a Buoy built from any file of at most MaxLines lines, each  *)
(* one of FileLineSet, under each suffix, and then loaded.                 *)
(***************************************************************************)
Year2020 == <<"2", "0", "2", "0">>
Year2021 == <<"2", "0", "2", "1">>
Day100 == <<"1", "0", "0">>
Day101 == <<"1", "0", "1">>
Day60 == <<"6", "0">>
Time1230 == <<"1", "2", ".", "3", "0">>
Time1300 == <<"1", "3", ".", "0", "0">>
Time1275 == <<"1", "2", ".", "7", "5">>
Time95 == <<"9", ".", "5">>
Temp152 == <<"1", "5", ".", "2">>
Temp154 == <<"1", "5", ".", "4">>
Stamp0409 == <<"2", "0", "2", "0", "-", "0", "4", "-", "0", "9", " ",
               "1", "2", ":", "1", "8", ":", "0", "0">>

\* ','.join(fields) + '\n'
CsvLine(fields) == Join(fields, ",") \o <<"\n">>

HeaderWCO == CsvLine(<<<<"Year">>, <<"Serial">>, <<"Time">>, <<"Temp">>>>)
HeaderCEFAS == CsvLine(<<<<"Time", " ", "(GMT)">>, <<"Temp">>>>)
HeaderNoTime == CsvLine(<<<<"Temp">>, <<"Sal">>>>)
Row1 == CsvLine(<<Year2020, Day100, Time1230, Temp152>>)
Row2 == CsvLine(<<Year2020, Day101, Time1300, Temp154>>)
RowEmptyLast == CsvLine(<<Year2021, Day60, Time95, <<>>>>)
RowShort == CsvLine(<<Year2020, Day100, Time1230>>)
RowBadTime == CsvLine(<<Year2020, Day100, Time1275, Temp152>>)
RowBadTemp == CsvLine(<<Year2020, Day101, Time1300, <<"abc">>>>)
RowCEFAS == CsvLine(<<Stamp0409, Temp152>>)
BlankLine == <<"\n">>

FileLineSet == {HeaderWCO, HeaderCEFAS, HeaderNoTime, Row1, Row2, RowEmptyLast,
                RowShort, RowBadTime, RowBadTemp, RowCEFAS, BlankLine}

Suffixes == {".csv", ".txt", ".dat"}

InitBuoy ==
    /\ suffix \in Suffixes
    /\ fileLines \in SeqsUpTo(FileLineSet, MaxLines)
    /\ pc = "new" /\ exc = None
    /\ _lines = <<>> /\ header = <<>> /\ header_length = 0 /\ header_indices = <<>>
    /\ time = NoObject /\ position = NoObject /\ data = NoObject
    /\ SplitIdle /\ DbIdle

NextBuoy == Construct \/ Load

SpecBuoy == InitBuoy /\ [][NextBuoy]_vars

(***************************************************************************)
(* get_buoy_metadata and get_buoy_data.  The database is what the call     *)
(* meets: whether sqlite3.connect succeeds, whether the SELECT succeeds,   *)
(* and the rows it fetches (one column; a cell is an integer or NULL).     *)
(***************************************************************************)
PyNone == [type |-> "NoneType", v |-> 0]
PyInt(n) == [type |-> "int", v |-> n]
PyFalse == [type |-> "bool", v |-> 0]
PyFloat(n) == [type |-> "float", v |-> n]
PyNaN == [type |-> "nan", v |-> 0]

Cells == {PyNone, PyInt(1)}

\* x.astype(float) of one element
AsFloat(x) == IF x.type = "NoneType" THEN PyNaN ELSE PyFloat(x.v)

\* the try / except sqlite3.Error / finally statement both functions share:
\* the connection's end, the exception that leaves the statement, and the
\* value bound to the result
TryQuery(opens, exists, fetched, sentinel) ==
    IF ~opens
    THEN \* connect raised, con was never bound: "if con:" raises in the
         \* handler and again in the finally clause
         [con |-> "unbound", exc |-> "UnboundLocalError", val |-> <<>>]
    ELSE IF ~exists
    THEN \* execute raised: the handler closes con and binds the sentinel
         [con |-> "closed", exc |-> None, val |-> sentinel]
    ELSE [con |-> "closed", exc |-> None, val |-> fetched]

get_buoy_metadata(sqlite, opens, exists, table) ==
    IF ~sqlite THEN [con |-> "unbound", exc |-> "RuntimeError", val |-> <<>>]
    ELSE TryQuery(opens, exists,
                  [i \in 1..Len(table) |-> [Field |-> table[i][1]]],
                  <<PyFalse>>)

\* return data.astype(float)
DataAsFloat(r) ==
    IF r.exc # None THEN r
    ELSE [r EXCEPT !.val =
              [i \in 1..Len(r.val) |->
                  IF r.val[i] = PyFalse THEN AsFloat(r.val[i])
                  ELSE [k \in 1..Len(r.val[i]) |-> AsFloat(r.val[i][k])]]]

get_buoy_data(sqlite, opens, exists, table) ==
    IF ~sqlite THEN [con |-> "unbound", exc |-> "RuntimeError", val |-> <<>>]
    ELSE DataAsFloat(TryQuery(opens, exists, table, <<PyFalse>>))

InitDb ==
    /\ use_sqlite \in BOOLEAN
    /\ dbOpens \in BOOLEAN
    /\ tableExists \in BOOLEAN
    /\ rows \in SeqsUpTo({<<c>> : c \in Cells}, MaxRows)
    /\ dbFn = "none" /\ dbPc = "call" /\ con = "unbound" /\ dbExc = None
    /\ dbRet = <<>>
    /\ SplitIdle /\ BuoyIdle

DbCall(fn, r) ==
    /\ dbPc = "call"
    /\ dbFn' = fn
    /\ dbPc' = IF r.exc = None THEN "returned" ELSE "raised"
    /\ con' = r.con
    /\ dbExc' = r.exc
    /\ dbRet' = r.val
    /\ UNCHANGED <<use_sqlite, dbOpens, tableExists, rows, splitVars, buoyVars>>

GetBuoyMetadata ==
    DbCall("get_buoy_metadata", get_buoy_metadata(use_sqlite, dbOpens, tableExists, rows))

GetBuoyData ==
    DbCall("get_buoy_data", get_buoy_data(use_sqlite, dbOpens, tableExists, rows))

NextDb == GetBuoyMetadata \/ GetBuoyData

SpecDb == InitDb /\ [][NextDb]_vars

(***************************************************************************)
(* Properties.                                                             *)
(***************************************************************************)
Candidates == {";", ",", "\t", " "}
CandidatesIn(s) == {c \in Candidates : Contains(s, c)}

\* the candidate that comes first in the order semicolon, comma, tab, space
FirstCandidateIn(s) ==
    IF ";" \in CandidatesIn(s) THEN ";"
    ELSE IF "," \in CandidatesIn(s) THEN ","
    ELSE IF "\t" \in CandidatesIn(s) THEN "\t" ELSE " "

DefaultCallReturned == splitPc = "returned" /\ ~remove_empty /\ ~remove_trailing

\* C6: with the default options _split_lines cuts the newline-stripped line
\* at every occurrence of the first candidate, in the order semicolon, comma,
\* tab, space, that the line holds, and at nothing else: no token holds that
\* candidate, the tokens joined by it give the line back, and there is one
\* token more than the line has occurrences of it.  So a line with exactly
\* one kind of candidate gives count + 1 tokens.
C6_SplitOnFirstCandidate ==
    (DefaultCallReturned /\ CandidatesIn(line) # {}) =>
        /\ \A i \in 1..Len(y) : ~Contains(y[i], FirstCandidateIn(line))
        /\ Join(y, FirstCandidateIn(line)) = Strip(line, {"\n"})
        /\ Len(y) = Count(Strip(line, {"\n"}), FirstCandidateIn(line)) + 1
        /\ \A c \in Candidates :
               CandidatesIn(line) = {c} => Len(y) = Count(Strip(line, {"\n"}), c) + 1

\* a default call returned for a line that holds a comma twice and a space,
\* the lower-priority candidate, as well
C6_Witness ==
    /\ DefaultCallReturned
    /\ CandidatesIn(line) = {",", " "}
    /\ Count(line, ",") = 2
    /\ Len(y) = 3

\* C9: for a line that holds none of the candidates, the empty and the
\* newline-only line among them, _split_lines under every setting of the
\* options returns, without raising, the one token that is the line with its
\* trailing newline stripped.
C9_NoDelimiterOneToken ==
    (splitPc # "call" /\ CandidatesIn(line) = {}) =>
        /\ splitPc = "returned"
        /\ y = <<RStrip(line, {"\n"})>>

\* C10: with remove_empty _split_lines returns no zero-length token: the
\* tokens are the fields that are not empty once trimmed, trimmed, in order.
C10_NoEmptyToken ==
    (splitPc = "returned" /\ remove_empty) =>
        \A i \in 1..Len(y) : y[i] # <<>>

TimeNameTokens == {<<"Year">>, <<"Serial">>, <<"Jd">>, <<"Time">>, <<"Time_GMT">>,
                   <<"Date_YYMMDD">>, <<"Time_HHMMSS">>, <<"Date/Time_GMT">>}

LineHasTimeName(tokens) == \E i \in 1..Len(tokens) : tokens[i] \in TimeNameTokens

\* the constructor returned: _lines and the header are those of the object
Constructed == header_length > 0

\* k of C8: the number of leading lines that hold a time-column name
LeadingHeaderLines ==
    CHOOSE k \in 0..Len(_lines) :
        /\ \A i \in 1..k : LineHasTimeName(_lines[i])
        /\ k < Len(_lines) => ~LineHasTimeName(_lines[k + 1])

\* C8: header_length is the number k of leading lines that hold a time-column
\* name, or 1 when there is none; the header row is line header_length (the
\* last of the header block); and when k >= 1 every line up to it is a
\* header line and the line after it, the first body line, is not.
C8_HeaderLength ==
    Constructed =>
        /\ header_length = IF LeadingHeaderLines >= 1 THEN LeadingHeaderLines ELSE 1
        /\ header = _lines[header_length]
        /\ LeadingHeaderLines >= 1 =>
               /\ \A i \in 1..header_length : LineHasTimeName(_lines[i])
               /\ header_length < Len(_lines) =>
                      ~LineHasTimeName(_lines[header_length + 1])

\* a two-line header block followed by a body line
C8_Witness ==
    /\ Constructed
    /\ LeadingHeaderLines = 2
    /\ header_length = 2
    /\ Len(_lines) = 3

\* the body rows with as many tokens as the header row
BodyRows == SubSeq(_lines, header_length + 1, Len(_lines))
IsRetained(row) == Len(row) = Len(header)
RetainedRows == SelectSeq(BodyRows, IsRetained)

TimeGMT == <<"Time", " ", "(GMT)">>
HeaderHas(name) == \E i \in 1..Len(header) : header[i] = name
ColumnOf(row, name) == row[header_indices[name] + 1]

DataNames == {header[i] : i \in 1..Len(header)} \ TimeNameTokens

\* C1: when load() has completed and set data, there is one attribute of
\* data for each header column that is no time column, and each of them and
\* time.datetime has as many entries as there are body rows whose token
\* count is the header row's, which is no more than the body lines.
C1_ColumnsSameLength ==
    (pc = "loaded" /\ data # NoObject) =>
        /\ time # NoObject
        /\ Len(time[1].datetime) = Len(RetainedRows)
        /\ DOMAIN data[1] = DataNames
        /\ \A name \in DOMAIN data[1] :
               /\ Len(data[1][name]) = Len(RetainedRows)
               /\ \A i \in 1..Len(RetainedRows) :
                      data[1][name][i] = float(ColumnOf(RetainedRows[i], name)).val
        /\ Len(RetainedRows) <= Len(BodyRows)

\* a load that set data from a file with a ragged body row and a kept one
C1_Witness ==
    /\ pc = "loaded" /\ data # NoObject
    /\ DOMAIN data[1] # {}
    /\ Len(RetainedRows) >= 1
    /\ Len(RetainedRows) < Len(BodyRows)

\* the file's first line as _split_lines cuts it: not blank, and none of its
\* tokens a time-column name, so it is the header row and holds none
FirstLineTokens == _split_lines(fileLines[1], FALSE, FALSE).val

NoTimeNameFile ==
    /\ fileLines # <<>>
    /\ FirstLineTokens # <<>>
    /\ ~LineHasTimeName(FirstLineTokens)

\* C2: for a file whose header row holds no time-column name, Buoy() and
\* load() do not raise and leave data and position unset and time.datetime
\* empty; and after any load() data and position are both unset when
\* time.datetime is empty and both set when it is not.
C2_NoTimeConvention ==
    /\ (NoTimeNameFile /\ pc # "new") =>
           /\ pc # "raised"
           /\ pc = "loaded" =>
                  /\ data = NoObject /\ position = NoObject
                  /\ time # NoObject /\ time[1].datetime = <<>>
    /\ pc = "loaded" =>
           IF time[1].datetime = <<>>
           THEN data = NoObject /\ position = NoObject
           ELSE data # NoObject /\ position # NoObject

\* C3: with a header column named Time (GMT), and not all of Year, Serial and
\* Time, load() gives one timestamp per retained body row, parsed from that
\* column as YYYY-MM-DD HH:MM:SS, and sets position and data.  (Stated for
\* files with two body lines or more, whose retained rows all parse.)
C3_TimeGMTConvention ==
    (/\ pc = "loaded"
     /\ HeaderHas(TimeGMT)
     /\ ~(HeaderHas(<<"Year">>) /\ HeaderHas(<<"Serial">>) /\ HeaderHas(<<"Time">>))
     /\ Len(BodyRows) >= 2
     /\ RetainedRows # <<>>
     /\ \A i \in 1..Len(RetainedRows) :
            strptime(ColumnOf(RetainedRows[i], TimeGMT), CEFASFormat).exc = None) =>
        /\ time[1].datetime =
               [i \in 1..Len(RetainedRows) |->
                   strptime(ColumnOf(RetainedRows[i], TimeGMT), CEFASFormat).val]
        /\ position # NoObject
        /\ data # NoObject

HasWCOColumns == HeaderHas(<<"Year">>) /\ HeaderHas(<<"Serial">>) /\ HeaderHas(<<"Time">>)

\* the text a retained row gives strptime under the Year/Serial/Time convention
RowText(row) ==
    ColumnOf(row, <<"Year">>) \o ColumnOf(row, <<"Serial">>) \o <<" ">>
        \o ColumnOf(row, <<"Time">>)

\* C5: with the columns Year, Serial and Time and well-formed values,
\* time.datetime after load() has one timestamp per retained body row, in
\* row order, whatever the number of body rows (none, one or more).
C5_OneStampPerRow ==
    (/\ pc = "loaded"
     /\ HasWCOColumns
     /\ \A i \in 1..Len(RetainedRows) :
            strptime(RowText(RetainedRows[i]), WCOFormat).exc = None) =>
        time[1].datetime =
            [i \in 1..Len(RetainedRows) |->
                strptime(RowText(RetainedRows[i]), WCOFormat).val]

\* days from 1 January of year 1 to the date, by the calendar's closed form
DaysBeforeYear(year) ==
    365 * (year - 1) + (year - 1) \div 4 - (year - 1) \div 100 + (year - 1) \div 400
DaysBeforeMonth(year, month) ==
    <<0, 31, 59, 90, 120, 151, 181, 212, 243, 273, 304, 334>>[month]
        + (IF month > 2 /\ IsLeap(year) THEN 1 ELSE 0)
Ordinal(year, month, day) == DaysBeforeYear(year) + DaysBeforeMonth(year, month) + day

RECURSIVE PowerOfTen(_)
PowerOfTen(n) == IF n = 0 THEN 1 ELSE 10 * PowerOfTen(n - 1)

ExampleFile == suffix = ".csv" /\ fileLines = <<HeaderWCO, Row1, Row2>>

Stamp(year, month, day, hour, minute) ==
    [year |-> year, month |-> month, day |-> day, hour |-> hour,
     minute |-> minute, second |-> 0]

Decimal(digits, decimals) ==
    [nan |-> FALSE, sign |-> 1, digits |-> digits, decimals |-> decimals]

\* load() built time under the Year/Serial/Time convention
WCOTimes == time # NoObject /\ HasWCOColumns

\* the date and the hour of the i-th timestamp are those of the i-th
\* retained row
DateAndHourOfRow(i) ==
    /\ Ordinal(time[1].datetime[i].year, time[1].datetime[i].month,
               time[1].datetime[i].day)
           = Ordinal(Number(ColumnOf(RetainedRows[i], <<"Year">>)), 1, 1)
                 + Number(ColumnOf(RetainedRows[i], <<"Serial">>)) - 1
    /\ time[1].datetime[i].hour
           = Number(SplitOn(ColumnOf(RetainedRows[i], <<"Time">>), ".")[1])
    /\ time[1].datetime[i].second = 0

\* the digits after the point of the i-th retained row's Time
MinuteDigits(i) == SplitOn(ColumnOf(RetainedRows[i], <<"Time">>), ".")[2]

ExampleHeader ==
    /\ header = <<<<"Year">>, <<"Serial">>, <<"Time">>, <<"Temp">>>>
    /\ header_length = 1
    /\ data # NoObject
    /\ data[1][<<"Temp">>] = <<Decimal(152, 1), Decimal(154, 1)>>

\* C4 as claimed: the timestamp of a retained row is 1 January of Year plus
\* Serial - 1 days, at the hour of the integer part of Time plus the fraction
\* of an hour its digits after the point give; the example file gives header
\* [Year, Serial, Time, Temp], header_length 1, Temp [15.2, 15.4] and
\* datetime [2020-04-09T12:18:00, 2020-04-10T13:00:00].
C4_FractionOfHour ==
    /\ WCOTimes =>
           \A i \in 1..Len(time[1].datetime) :
               /\ DateAndHourOfRow(i)
               /\ time[1].datetime[i].minute
                      = (Number(MinuteDigits(i)) * 60) \div PowerOfTen(Len(MinuteDigits(i)))
    /\ (ExampleFile /\ pc = "loaded") =>
           /\ ExampleHeader
           /\ time[1].datetime = <<Stamp(2020, 4, 9, 12, 18), Stamp(2020, 4, 10, 13, 0)>>

\* C4 amended: the timestamp of a retained row is 1 January of Year plus
\* Serial - 1 days, at the hour of the integer part of Time and the minute
\* that its digits after the point spell (12.30 is 12:30, 9.5 is 09:05); the
\* example file gives header [Year, Serial, Time, Temp], header_length 1,
\* Temp [15.2, 15.4] and datetime [2020-04-09T12:30:00, 2020-04-10T13:00:00].
C4_DigitsAreMinutes ==
    /\ WCOTimes =>
           \A i \in 1..Len(time[1].datetime) :
               /\ DateAndHourOfRow(i)
               /\ time[1].datetime[i].minute = Number(MinuteDigits(i))
    /\ (ExampleFile /\ pc = "loaded") =>
           /\ ExampleHeader
           /\ time[1].datetime = <<Stamp(2020, 4, 9, 12, 30), Stamp(2020, 4, 10, 13, 0)>>

\* the example file, loaded
C4_Witness ==
    /\ ExampleFile
    /\ pc = "loaded"
    /\ WCOTimes
    /\ Len(time[1].datetime) = 2

\* C7: when the connection cannot be opened or the query fails,
\* get_buoy_metadata returns [False] and get_buoy_data the float array of
\* [False], neither raises, and no connection is left open.
C7_NoDatabaseErrorEscapes ==
    (dbPc # "call" /\ use_sqlite /\ (~dbOpens \/ ~tableExists)) =>
        /\ dbPc = "returned"
        /\ dbExc = None
        /\ con # "open"
        /\ dbRet = IF dbFn = "get_buoy_metadata" THEN <<PyFalse>> ELSE <<PyFloat(0)>>

====
